---- MODULE Spec2Model ----
(***************************************************************************)
(* A model of theano/sandbox/gpuarray/subtensor.py:                        *)
(*   - GpuSubtensor's slice normalizer fix_indices (C support code),       *)
(*   - GpuIncSubtensor.perform (sliced set / accumulate),                  *)
(*   - GpuAdvancedIncSubtensor1.perform (sequential scatter),              *)
(*   - GpuAdvancedIncSubtensor1_dev20 (accelerated scatter: c_code,        *)
(*     GpuArray_vector_add_fast, k_vector_add_fast),                       *)
(*   - the half-float atomicAdd of the kernel source,                      *)
(*   - the launch geometry of GpuArray_vector_add_fast and the loops of    *)
(*     k_vector_add_fast at the platform maxima.                           *)
(* Each part has its own specification over the shared variables; the      *)
(* variables of the other parts stay at their idle values.                 *)
(***************************************************************************)
EXTENDS Integers, Sequences, FiniteSets, TLC

VARIABLES
    fpc,      \* fix_indices: "call" before the call, "ret" after it
    fargs,    \* fix_indices: the arguments of the call
    fres,     \* fix_indices: return code and the three slots after the call
    aword,    \* atomicAdd: the 4-byte word at base, bytes in address order
    aword0,   \* atomicAdd: the word before any thread ran
    athr,     \* atomicAdd: each thread's position and locals
    cfg,      \* array ops: the op's class and properties, the node's types
    heap,     \* array ops: the device buffers; 1 is the caller's x, 2 a copy
    yarr,     \* array ops: the source array y
    ilist,    \* scatter: the index vector
    pc,       \* array ops: where the operation stands
    out,      \* array ops: the buffer stored in out[0] (0: none)
    err,      \* array ops: the exception that reached the caller ("": none)
    loopn,    \* scatter: index entries the sequential loop has done
    kern,     \* accelerated scatter: the launch and the kernel's threads
    grid      \* launch geometry: the problem size, the launch, a thread's visits

fixVars == <<fpc, fargs, fres>>
atomVars == <<aword, aword0, athr>>
arrVars == <<cfg, heap, yarr, ilist, pc, out, err, loopn, kern>>
gridVars == <<grid>>
vars == <<fpc, fargs, fres, aword, aword0, athr,
          cfg, heap, yarr, ilist, pc, out, err, loopn, kern, grid>>

(***************************************************************************)
(* Bounds of the model.                                                    *)
(***************************************************************************)
\* Axis lengths 0..MaxLen.
MaxLen == 20
\* How far a start/stop value may lie outside [-len, len].
Slack == 2
\* Steps range over -MaxStep..MaxStep.
MaxStep == 2
\* ssize_t and size_t are modelled SizeBits wide (two's complement).
SizeBits == 16
\* Threads that run atomicAdd concurrently on one word.
NThreads == 3
\* GpuIncSubtensor: x is XDim by XDim.
XDim == 2
\* Scatter: x has XRows rows of XCols columns (or XRows scalars); the index
\* vector has up to MaxIdx entries.
XRows == 2
XCols == 2
MaxIdx == 2

Min(a, b) == IF a < b THEN a ELSE b

(***************************************************************************)
(* C integer conversions between size_t and ssize_t.                       *)
(***************************************************************************)
SizeMod == 2 ^ SizeBits
\* conversion of a value to size_t
ToSize(v) == v % SizeMod
\* conversion of a size_t value to ssize_t
ToSSize(u) == IF u >= SizeMod \div 2 THEN u - SizeMod ELSE u

(***************************************************************************)
(* GpuSubtensor.c_code, fix_idx: a slice field that is None becomes the    *)
(* literal 0 with the "omitted" flag 1; an integer becomes itself with     *)
(* flag 0.  A slice field is the record None or the record Given(v).         *)
(***************************************************************************)
None == [none |-> TRUE, v |-> 0]
Given(v) == [none |-> FALSE, v |-> v]
fix_idx(idx) == IF idx.none THEN <<0, 1>> ELSE <<idx.v, 0>>

(***************************************************************************)
(* fix_indices, line by line.                                              *)
(***************************************************************************)
\* if (step_n) *step = 1;
FixStepNoDefault(step, step_n) == step
FixStep(step, step_n) == IF step_n = 1 THEN 1 ELSE step

\* The else-branch shared by start and stop:
\*   if (*v < 0) *v += len;
\*   if (*v < 0) *v = (*step < 0) ? -1 : 0;
\*   if (*v > -1 && *v >= len) *v = (*step < 0) ? len-1 : len;
\* "*v += len" adds in size_t and converts back; "*v >= len" compares in
\* size_t; "len-1" is computed in size_t.
ClampNoWrap(v, step, len) ==
    LET b == IF v < 0 THEN (IF step < 0 THEN -1 ELSE 0) ELSE v
    IN  IF b > -1 /\ ToSize(b) >= len
        THEN ToSSize(IF step < 0 THEN ToSize(len - 1) ELSE len)
        ELSE b
Clamp(v, step, len) ==
    LET a == IF v < 0 THEN ToSSize(ToSize(ToSize(v) + len)) ELSE v
        b == IF a < 0 THEN (IF step < 0 THEN -1 ELSE 0) ELSE a
    IN  IF b > -1 /\ ToSize(b) >= len
        THEN ToSSize(IF step < 0 THEN ToSize(len - 1) ELSE len)
        ELSE b

\* if (start_n) *start = (*step < 0) ? len-1 : 0; else { ... }
FixStart(start, start_n, step, len) ==
    IF start_n = 1
    THEN ToSSize(IF step < 0 THEN ToSize(len - 1) ELSE 0)
    ELSE Clamp(start, step, len)

\* if (stop_n) *stop = (*step < 0) ? -1 : len; else { ... }
FixStop(stop, stop_n, step, len) ==
    IF stop_n = 1
    THEN ToSSize(IF step < 0 THEN ToSize(-1) ELSE len)
    ELSE Clamp(stop, step, len)

\* if (*stop < *start && *step > 0) *stop = *start;
OrderStopKeep(start, stop, step) == stop
OrderStop(start, stop, step) ==
    IF stop < start /\ step > 0 THEN start ELSE stop

fix_indices(start, stop, step, start_n, stop_n, step_n, len) ==
    LET st == FixStep(step, step_n)
    IN  IF st = 0
        THEN [rc |-> -1, start |-> start, stop |-> stop, step |-> st]
        ELSE LET s == FixStart(start, start_n, st, len)
                 e == FixStop(stop, stop_n, st, len)
             IN  [rc |-> 0, start |-> s, stop |-> OrderStop(s, e, st), step |-> st]

(***************************************************************************)
(* The indices pygpu_index takes along an axis for a normalized triple:    *)
(* start, start+step, ... strictly before stop in the direction of step.   *)
(***************************************************************************)
RangeLen(start, stop, step) ==
    IF step > 0
    THEN (IF stop > start THEN (stop - start + step - 1) \div step ELSE 0)
    ELSE (IF start > stop THEN (start - stop - step - 1) \div (-step) ELSE 0)
Selected(start, stop, step) ==
    [k \in 1 .. RangeLen(start, stop, step) |-> start + (k - 1) * step]

(***************************************************************************)
(* The specification of the normalizer: Init draws the axis length and the *)
(* slice; the start and stop slots come from fix_idx, the step slot of an  *)
(* omitted step holds any value (fix_idx always writes 0 there).           *)
(***************************************************************************)
Lens == 0 .. MaxLen
Bounds(len) == {None} \cup {Given(v) : v \in -(len + Slack) .. (len + Slack)}
Steps == -MaxStep .. MaxStep

NoRes == [rc |-> 0, start |-> 0, stop |-> 0, step |-> 0]
NoArgs == [len |-> 0, start |-> 0, stop |-> 0, step |-> 0,
           start_n |-> 0, stop_n |-> 0, step_n |-> 0]

FixIdle == fpc = "idle" /\ fargs = NoArgs /\ fres = NoRes
AtomIdle == aword = <<0, 0, 0, 0>> /\ aword0 = <<0, 0, 0, 0>> /\ athr = <<>>
NoArray == [shape |-> <<>>, data |-> <<>>]
NoThreads == <<>>
IdleKernel ==
    [launched |-> FALSE, gridDim |-> 0, blockDim |-> 0, gaerr |-> "",
     pyerr |-> "", synced |-> FALSE, oob |-> FALSE, thr |-> NoThreads]
NoGrid ==
    [at |-> "idle", numIndices |-> 0, numColsX |-> 0, launched |-> FALSE,
     gridDim |-> 0, blockDim |-> 0, thread |-> <<>>, visits |-> <<>>]
GridIdle == grid = NoGrid
ArrIdle ==
    /\ cfg = [op |-> "none"] /\ heap = <<>> /\ yarr = NoArray /\ ilist = <<>>
    /\ pc = "idle" /\ out = 0 /\ err = "" /\ loopn = 0 /\ kern = IdleKernel

InitFix ==
    /\ fpc = "call"
    /\ \E len \in Lens :
       \E b \in Bounds(len), e \in Bounds(len), st \in Steps, st_n \in {0, 1} :
          fargs = [len |-> len,
                   start |-> fix_idx(b)[1], start_n |-> fix_idx(b)[2],
                   stop |-> fix_idx(e)[1], stop_n |-> fix_idx(e)[2],
                   step |-> st, step_n |-> st_n]
    /\ fres = NoRes
    /\ AtomIdle
    /\ ArrIdle
    /\ GridIdle

\* starts[i] = ...; stops[i] = ...; steps[i] = ...; fix_indices(&starts[i], ...)
FixIndicesCall ==
    /\ fpc = "call"
    /\ fpc' = "ret"
    /\ fres' = fix_indices(fargs.start, fargs.stop, fargs.step,
                           fargs.start_n, fargs.stop_n, fargs.step_n, fargs.len)
    /\ UNCHANGED <<fargs, atomVars, arrVars, gridVars>>

NextFix == FixIndicesCall

SpecFix == InitFix /\ [][NextFix]_vars

(***************************************************************************)
(* The half-float atomicAdd of the kernel source.                          *)
(*                                                                         *)
(* A 4-byte word is the sequence of its bytes in address order (the device *)
(* is little-endian), a half is its 16-bit pattern.  A finite non-negative *)
(* half stands for an integer number of units of 2^-24: the arithmetic     *)
(* below is exact on the patterns the model draws (sums below 2^24 units   *)
(* are exact in the 4-byte float the sum is computed in).                  *)
(***************************************************************************)
\* The four selectors of __byte_perm in atomicAdd.
SelHigh == 17458    \* 0x4432: bytes 2,3 of the word, then zeros
SelLow == 17424     \* 0x4410: bytes 0,1 of the word, then zeros
PutHigh == 21520    \* 0x5410: bytes 0,1 of the word, then bytes 0,1 of sum
PutLow == 12884     \* 0x3254: bytes 0,1 of sum, then bytes 2,3 of the word

ZeroWord == <<0, 0, 0, 0>>
\* __byte_perm(x, y, s): byte n of the result is the byte of (x, y) that the
\* n-th hexadecimal digit of s selects; bytes 0..3 are x's, 4..7 are y's.
BytePerm(x, y, s) ==
    [n \in 1 .. 4 |->
        LET sel == ((s \div (16 ^ (n - 1))) % 16) % 8
        IN  IF sel < 4 THEN x[sel + 1] ELSE y[sel - 3]]
\* a 16-bit value held in a ga_uint
WordOf(h) == <<h % 256, (h \div 256) % 256, 0, 0>>
\* (ga_half) of a ga_uint: its low 16 bits
HalfOf(w) == w[1] + 256 * w[2]

\* __half2float, in units of 2^-24
Half2Float(h) ==
    LET e == h \div 1024
        m == h % 1024
    IN  IF e = 0 THEN m ELSE (1024 + m) * 2 ^ (e - 1)
\* __float2half_rn: round to nearest, ties to the even significand
Float2HalfRn(u) ==
    IF u < 1024 THEN u
    ELSE LET e == CHOOSE k \in 1 .. 20 : 1024 * 2 ^ (k - 1) <= u /\ u < 2048 * 2 ^ (k - 1)
             q == 2 ^ (e - 1)
             m == u \div q
             r == u % q
             up == 2 * r > q \/ (2 * r = q /\ m % 2 = 1)
         IN  e * 1024 + (m - 1024) + (IF up THEN 1 ELSE 0)

\* sum = __float2half_rn(__half2float(val) + __half2float((ga_half)
\*           __byte_perm(old, 0, ((ga_size)addr & 2) ? 0x4432 : 0x4410)));
AtomicSum(old, val, high) ==
    Float2HalfRn(Half2Float(val)
                 + Half2Float(HalfOf(BytePerm(old, ZeroWord,
                                              IF high THEN SelHigh ELSE SelLow))))
\* new_ = __byte_perm(old, sum, ((ga_size)addr & 2) ? 0x5410 : 0x3254);
AtomicNewWholeWord(old, sum, high) == WordOf(sum)
AtomicNew(old, sum, high) ==
    BytePerm(old, WordOf(sum), IF high THEN PutHigh ELSE PutLow)
\* atomicCAS(base, assumed, new_): the word afterwards
atomicCAS(mem, assumed, new_) == IF mem = assumed THEN new_ ELSE mem
\* } while (assumed != old);
RetryNever(assumed, old) == FALSE
RetryAlways(assumed, old) == TRUE
Retry(assumed, old) == assumed # old

Threads == 1 .. NThreads
\* Initial halves and added values, as 16-bit patterns: 2047 and 2046 are
\* the largest patterns below the first binade whose spacing is 2 units.
HalfInits == {5, 2046, 2047}
HalfVals == {1, 2}

\* Threads 1..k add to the low half, the others to the high half; all the
\* additions to one half add the same value.
InitAtomic ==
    /\ FixIdle
    /\ ArrIdle
    /\ GridIdle
    /\ \E lo \in HalfInits, hi \in HalfInits :
          /\ aword = <<lo % 256, lo \div 256, hi % 256, hi \div 256>>
          /\ aword0 = aword
    /\ \E k \in 0 .. NThreads, vlo \in HalfVals, vhi \in HalfVals :
          athr = [t \in Threads |->
                    [pc |-> "read", high |-> t > k,
                     val |-> IF t > k THEN vhi ELSE vlo,
                     old |-> ZeroWord, assumed |-> ZeroWord, new_ |-> ZeroWord,
                     ret |-> 0]]

\* old = *base;
AtomicRead(t) ==
    /\ athr[t].pc = "read"
    /\ athr' = [athr EXCEPT ![t].pc = "compute", ![t].old = aword]
    /\ UNCHANGED <<aword, aword0, fixVars, arrVars, gridVars>>

\* assumed = old; sum = ...; new_ = ...;
AtomicCompute(t) ==
    /\ athr[t].pc = "compute"
    /\ athr' = [athr EXCEPT
                  ![t].pc = "cas",
                  ![t].assumed = athr[t].old,
                  ![t].new_ = AtomicNew(athr[t].old,
                                        AtomicSum(athr[t].old, athr[t].val, athr[t].high),
                                        athr[t].high)]
    /\ UNCHANGED <<aword, aword0, fixVars, arrVars, gridVars>>

\* old = atomicCAS(base, assumed, new_); } while (assumed != old);
\* return (ga_half)__byte_perm(old, 0, ...);
AtomicCas(t) ==
    /\ athr[t].pc = "cas"
    /\ aword' = atomicCAS(aword, athr[t].assumed, athr[t].new_)
    /\ athr' = [athr EXCEPT
                  ![t].old = aword,
                  ![t].pc = IF Retry(athr[t].assumed, aword) THEN "compute" ELSE "done",
                  ![t].ret = IF Retry(athr[t].assumed, aword) THEN 0
                             ELSE HalfOf(BytePerm(aword, ZeroWord,
                                          IF athr[t].high THEN SelHigh ELSE SelLow))]
    /\ UNCHANGED <<aword0, fixVars, arrVars, gridVars>>

NextAtomic ==
    \E t \in Threads : AtomicRead(t) \/ AtomicCompute(t) \/ AtomicCas(t)

SpecAtomic == InitAtomic /\ [][NextAtomic]_vars

\* The same threads under a fair scheduler: a thread that can take a step
\* of its atomicAdd eventually takes one.  Every thread adds one unit; the
\* halves start at 5 or at 2047, from where a sum reaches 2048 and further
\* units are rounded away, so that a successful atomicCAS may store the
\* word it found.
FairInits == {5, 2047}
InitAtomicFair ==
    /\ FixIdle
    /\ ArrIdle
    /\ GridIdle
    /\ \E lo \in FairInits, hi \in FairInits :
          /\ aword = <<lo % 256, lo \div 256, hi % 256, hi \div 256>>
          /\ aword0 = aword
    /\ \E k \in 0 .. NThreads :
          athr = [t \in Threads |->
                    [pc |-> "read", high |-> t > k, val |-> 1,
                     old |-> ZeroWord, assumed |-> ZeroWord, new_ |-> ZeroWord,
                     ret |-> 0]]
AtomicStep(t) == AtomicRead(t) \/ AtomicCompute(t) \/ AtomicCas(t)
SpecAtomicFair ==
    InitAtomicFair /\ [][NextAtomic]_vars /\ \A t \in Threads : WF_vars(AtomicStep(t))

(***************************************************************************)
(* Arrays.  An array is its shape and its elements in C order; a view is   *)
(* a shape and, for each of its elements in C order, the position of that  *)
(* element in the data of the array it views.  Buffers live in heap: 1 is  *)
(* the buffer of the caller's x, 2 the copy an operation may make.         *)
(* Arrays start with distinct elements: x holds 1, 2, 3, ... and y holds   *)
(* 10, 50, 250, ... (10 times the powers of 5), so a result shows which    *)
(* source elements reached it and how often (up to 4 times each).          *)
(***************************************************************************)
RECURSIVE Prod(_)
Prod(shape) == IF shape = <<>> THEN 1 ELSE Head(shape) * Prod(Tail(shape))
XData(n) == [k \in 1 .. n |-> k]
YData(n) == [k \in 1 .. n |-> 10 * 5 ^ (k - 1)]
NewX(shape) == [shape |-> shape, data |-> XData(Prod(shape))]
NewY(shape) == [shape |-> shape, data |-> YData(Prod(shape))]

(***************************************************************************)
(* GpuIncSubtensor.perform.                                                *)
(***************************************************************************)
\* An entry of idx_list: an integer or a slice of optional fields.
IntEntry(i) == [kind |-> "int", i |-> i, start |-> None, stop |-> None, step |-> None]
SliceEntry(b, e, s) == [kind |-> "slice", i |-> 0, start |-> b, stop |-> e, step |-> s]

\* The indices an entry takes along an axis of length len, in order.
AxisItems(entry, len) ==
    IF entry.kind = "int"
    THEN <<IF entry.i < 0 THEN entry.i + len ELSE entry.i>>
    ELSE LET b == fix_idx(entry.start)
             e == fix_idx(entry.stop)
             s == fix_idx(entry.step)
             t == fix_indices(b[1], e[1], s[1], b[2], e[2], s[2], len)
         IN  Selected(t.start, t.stop, t.step)

\* sub_x = x.__getitem__(cdata) for a rank-2 x: an integer entry drops its
\* axis, a slice keeps it, an axis without entry is taken whole.
getitem(shape, cdata) ==
    LET rows == AxisItems(cdata[1], shape[1])
        cols == IF Len(cdata) = 2 THEN AxisItems(cdata[2], shape[2])
                ELSE [k \in 1 .. shape[2] |-> k - 1]
        nc == Len(cols)
    IN  [shape |-> (IF cdata[1].kind = "slice" THEN <<Len(rows)>> ELSE <<>>)
                   \o (IF Len(cdata) = 2 /\ cdata[2].kind = "int" THEN <<>> ELSE <<nc>>),
         offs |-> [k \in 1 .. Len(rows) * nc |->
                     rows[((k - 1) \div nc) + 1] * shape[2] + cols[((k - 1) % nc) + 1] + 1]]

\* pygpu.elemwise.ielemwise2(sub_x, '+', y, broadcast=False)
ielemwise2(data, offs, src) ==
    [k \in DOMAIN data |->
        IF \E m \in DOMAIN offs : offs[m] = k
        THEN data[k] + src[CHOOSE m \in DOMAIN offs : offs[m] = k]
        ELSE data[k]]
\* x.__setitem__(cdata, y)
setitem(data, offs, src) ==
    [k \in DOMAIN data |->
        IF \E m \in DOMAIN offs : offs[m] = k
        THEN src[CHOOSE m \in DOMAIN offs : offs[m] = k]
        ELSE data[k]]
\* tmp = pygpu.elemwise.elemwise2(sub_x, '+', y, sub_x, broadcast=False)
elemwise2(data, offs, src) == [k \in DOMAIN offs |-> data[offs[k]] + src[k]]

\* if not self.inplace: x = x.copy()  -- the buffer x names afterwards
IncDestAlias(inplace) == 1
IncDest(inplace) == IF inplace THEN 1 ELSE 2
\* the heap after "x = x.copy()" or without it
WithCopy(h, dest) == IF dest = 1 THEN h ELSE [h EXCEPT ![2] = h[1]]

\* the data of x after the four branches of perform
IncCombineSetOnly(data, sub_x, y, set_instead_of_inc) ==
    setitem(data, sub_x.offs, y.data)
IncCombine(data, sub_x, y, set_instead_of_inc) ==
    IF sub_x.shape # <<>>
    THEN IF ~set_instead_of_inc
         THEN ielemwise2(data, sub_x.offs, y.data)
         ELSE setitem(data, sub_x.offs, y.data)
    ELSE IF ~set_instead_of_inc
         THEN setitem(data, sub_x.offs, elemwise2(data, sub_x.offs, y.data))
         ELSE setitem(data, sub_x.offs, y.data)

\* Index entries of an axis of length len: every integer of the axis, and
\* slices whose ends are omitted or in -len..len.
IncEnds(len) == {None} \cup {Given(v) : v \in -len .. len}
IncSteps == {None, Given(-1), Given(2)}
IncEntries(len) ==
    {IntEntry(i) : i \in -len .. len - 1}
    \cup {SliceEntry(b, e, s) : b \in IncEnds(len), e \in IncEnds(len), s \in IncSteps}
IdxLists ==
    {<<r>> : r \in IncEntries(XDim)}
    \cup {<<r, c>> : r \in IncEntries(XDim), c \in IncEntries(XDim)}

InitInc ==
    /\ FixIdle /\ AtomIdle /\ GridIdle
    /\ \E idx_list \in IdxLists, inplace \in BOOLEAN, set_instead_of_inc \in BOOLEAN :
          /\ cfg = [op |-> "GpuIncSubtensor", idx_list |-> idx_list,
                    inplace |-> inplace, set_instead_of_inc |-> set_instead_of_inc]
          /\ yarr = NewY(getitem(<<XDim, XDim>>, idx_list).shape)
    /\ heap = <<NewX(<<XDim, XDim>>), NoArray>>
    /\ ilist = <<>> /\ pc = "perform" /\ out = 0 /\ err = ""
    /\ loopn = 0 /\ kern = IdleKernel

IncPerform ==
    /\ pc = "perform" /\ cfg.op = "GpuIncSubtensor"
    /\ LET x == IncDest(cfg.inplace)
           h == WithCopy(heap, x)
           sub_x == getitem(h[x].shape, cfg.idx_list)
       IN  /\ heap' = [h EXCEPT ![x].data =
                          IncCombine(h[x].data, sub_x, yarr, cfg.set_instead_of_inc)]
           /\ out' = x
    /\ pc' = "done"
    /\ UNCHANGED <<cfg, yarr, ilist, err, loopn, kern, fixVars, atomVars, gridVars>>

NextInc == IncPerform

SpecInc == InitInc /\ [][NextInc]_vars

(***************************************************************************)
(* GpuAdvancedIncSubtensor1 and GpuAdvancedIncSubtensor1_dev20.            *)
(***************************************************************************)
\* The platform maxima of GpuArray_vector_add_fast.
MaxThreadsPerBlock == 256
MaxBlocks == 4096

Rank(a) == Len(a.shape)
\* x[i] for a Python index i: a negative i counts from the end
Row(i, nrows) == IF i < 0 THEN i + nrows ELSE i
\* the extent of x's rows (1 for a vector x, whose rows are scalars)
RowLen(xshape) == IF Len(xshape) = 2 THEN xshape[2] ELSE 1
\* the extent of y along the axis that lines up with x's columns
YCols(y, xshape) ==
    IF Len(xshape) = 2 /\ Rank(y) >= 1 THEN y.shape[Rank(y)] ELSE 1

\* c_code of _dev20: no C code for set mode, for ranks that differ or are
\* not 2, or below compute capability 2.
EligibleAnyMode(c, x, y) ==
    ~(Rank(x) # Rank(y) \/ Rank(x) # 2 \/ c.compute_capability < 2)
Eligible(c, x, y) ==
    ~(c.set_instead_of_inc \/ Rank(x) # Rank(y) \/ Rank(x) # 2
      \/ c.compute_capability < 2)

\* c_support_code_apply of _dev20: with config.gpuarray.sync the template
\* of the sync code is formatted with locals(), which holds no 'z'.
SupportCode(sync) == IF sync THEN "KeyError" ELSE "ok"

\* getInplElemwiseAdditionKernel(a, b)
AdditionKernelAnyType(dtype) == "ok"
AdditionKernel(dtype) == IF dtype = "float16" THEN "NotImplementedError" ELSE "ok"

\* if not self.inplace: x = x.copy()
ScatterDestAlias(inplace) == 1
ScatterDest(inplace) == IF inplace THEN 1 ELSE 2
\* if (!inplace) out = pygpu_copy(x, GA_C_ORDER); else out = x;
FastDestAlias(inplace) == 1
FastDest(inplace) == IF inplace THEN 1 ELSE 2

\* if y.ndim == x.ndim and y.shape[0] != 1: iterate jointly on x and y
Jointly(x, y) == Rank(y) = Rank(x) /\ y.shape[1] # 1

\* The position in y's data of the element that the sequential loop
\* combines into column c of the row of entry j: y[j] when iterating
\* jointly, reshaped_y otherwise, broadcast along the row.
SeqSource(x, y, j, c) ==
    LET yc == YCols(y, x.shape)
        cc == IF yc = 1 THEN 0 ELSE c
    IN  (IF Jointly(x, y) THEN j * yc ELSE 0) + cc + 1

\* x[i] = y[j]  /  k(x[i], y[j], broadcast=True), on the data of x
SeqCombine(x, y, i, j, set_instead_of_inc) ==
    LET n == RowLen(x.shape)
        r == Row(i, x.shape[1])
    IN  [k \in DOMAIN x.data |->
            IF (k - 1) \div n = r
            THEN (IF set_instead_of_inc THEN 0 ELSE x.data[k])
                 + y.data[SeqSource(x, y, j, (k - 1) % n)]
            ELSE x.data[k]]

\* The kernel's strides, in elements (arrays are C-contiguous).
StrideX0(x) == x.shape[2]
StrideX1(x) == 1
StrideY0NoBroadcast(y) == y.shape[2]
StrideY0(y) == IF y.shape[1] = 1 THEN 0 ELSE y.shape[2]
StrideY1(y) == IF y.shape[2] = 1 THEN 0 ELSE 1

\* atomicAdd(&X[...], Y[...]) on an element of X
AtomicStore(old, val) == val
AtomicAdd(old, val) == old + val

\* What a read outside Y's data may return.
Garbage == {0, 7}

ScatterOps == {"GpuAdvancedIncSubtensor1", "GpuAdvancedIncSubtensor1_dev20"}
DTypes == {"float16", "float32"}
\* The op's properties and the node's configuration.  The base op has no C
\* code: the device capability and the sync option do not reach it.
ScatterCfgs ==
    {[op |-> "GpuAdvancedIncSubtensor1", inplace |-> ip, set_instead_of_inc |-> st,
      dtype |-> dt, compute_capability |-> 2, sync |-> FALSE] :
        ip \in BOOLEAN, st \in BOOLEAN, dt \in DTypes}
    \cup
    {[op |-> "GpuAdvancedIncSubtensor1_dev20", inplace |-> ip, set_instead_of_inc |-> st,
      dtype |-> dt, compute_capability |-> cc, sync |-> sy] :
        ip \in BOOLEAN, st \in BOOLEAN, dt \in DTypes, cc \in {1, 2}, sy \in BOOLEAN}

\* Index vectors: up to MaxIdx entries, each a row of x, the last row also
\* written from the back as -1.
RECURSIVE SeqsUpTo(_, _)
SeqsUpTo(S, n) ==
    IF n = 0 THEN {<<>>}
    ELSE SeqsUpTo(S, n - 1)
         \cup {Append(q, v) : q \in {p \in SeqsUpTo(S, n - 1) : Len(p) = n - 1}, v \in S}
IndexVectors == SeqsUpTo(-1 .. XRows - 1, MaxIdx)
XShapes == {<<XRows>>, <<XRows, XCols>>}
\* The shapes of y for an x and n index entries: of x's rank with 1, n - 1,
\* n or n + 1 rows (an empty y included), or of lower rank; along the
\* columns 1 or x's extent.
YRowChoices(n) == {r \in {1, n - 1, n, n + 1} : r >= 0}
YShapes(xshape, n) ==
    IF Len(xshape) = 2
    THEN {<<r, c>> : r \in YRowChoices(n), c \in {1, xshape[2]}}
         \cup {<<c>> : c \in {1, xshape[2]}} \cup {<<>>}
    ELSE {<<r>> : r \in YRowChoices(n)} \cup {<<>>}

InitScatter ==
    /\ FixIdle /\ AtomIdle /\ GridIdle
    /\ cfg \in ScatterCfgs
    /\ ilist \in IndexVectors
    /\ \E xshape \in XShapes :
          /\ heap = <<NewX(xshape), NoArray>>
          /\ \E yshape \in YShapes(xshape, Len(ilist)) : yarr = NewY(yshape)
    /\ pc = "make_thunk" /\ out = 0 /\ err = "" /\ loopn = 0 /\ kern = IdleKernel

\* The framework picks the implementation: the base op hides its C code;
\* _dev20's c_code raises NotImplementedError when the node is not eligible
\* and the framework then runs perform; generating the support code fails
\* when the sync option is set.  Whether the framework asks an ineligible
\* node for its support code before c_code is not fixed by this file: both
\* orders are taken.
MakeThunk ==
    /\ pc = "make_thunk" /\ cfg.op \in ScatterOps
    /\ \/ /\ cfg.op = "GpuAdvancedIncSubtensor1" \/ ~Eligible(cfg, heap[1], yarr)
          /\ pc' = "perform" /\ err' = err
       \/ /\ cfg.op = "GpuAdvancedIncSubtensor1_dev20"
          /\ SupportCode(cfg.sync) # "ok"
          /\ pc' = "raised" /\ err' = SupportCode(cfg.sync)
       \/ /\ cfg.op = "GpuAdvancedIncSubtensor1_dev20"
          /\ Eligible(cfg, heap[1], yarr) /\ SupportCode(cfg.sync) = "ok"
          /\ pc' = "c_code" /\ err' = err
    /\ UNCHANGED <<cfg, heap, yarr, ilist, out, loopn, kern, fixVars, atomVars, gridVars>>

\* GpuAdvancedIncSubtensor1.perform up to its loops.
ScatterPerformBegin ==
    /\ pc = "perform" /\ cfg.op \in ScatterOps
    /\ LET x == ScatterDest(cfg.inplace)
           h == WithCopy(heap, x)
       IN  /\ heap' = h
           /\ out' = x
           /\ IF Len(ilist) = 0
              THEN pc' = "done" /\ err' = err
              ELSE IF Jointly(h[x], yarr) /\ yarr.shape[1] # Len(ilist)
                   THEN pc' = "raised" /\ err' = "AssertionError"
                   ELSE IF ~cfg.set_instead_of_inc /\ AdditionKernel(cfg.dtype) # "ok"
                        THEN pc' = "raised" /\ err' = AdditionKernel(cfg.dtype)
                        ELSE pc' = "loop" /\ err' = err
    /\ UNCHANGED <<cfg, yarr, ilist, loopn, kern, fixVars, atomVars, gridVars>>

\* One iteration of "for (j, i) in enumerate(idx)" / "for i in idx".
ScatterPerformStep ==
    /\ pc = "loop" /\ loopn < Len(ilist)
    /\ heap' = [heap EXCEPT ![out].data =
                   SeqCombine(heap[out], yarr, ilist[loopn + 1], loopn,
                              cfg.set_instead_of_inc)]
    /\ loopn' = loopn + 1
    /\ pc' = IF loopn + 1 = Len(ilist) THEN "done" ELSE "loop"
    /\ UNCHANGED <<cfg, yarr, ilist, out, err, kern, fixVars, atomVars, gridVars>>

\* c_code of _dev20 with GpuArray_vector_add_fast: copy or alias, launch
\* the kernel when there are threads and blocks, note a launch error, run
\* the sync code if it was generated, and return out (never NULL here).
\* GpuKernel_call returns while the kernel's threads still run.
FastScatter ==
    /\ pc = "c_code"
    /\ LET o == FastDest(cfg.inplace)
           h == WithCopy(heap, o)
           threads_per_block == Min(h[o].shape[2], MaxThreadsPerBlock)
           n_blocks == Min(Len(ilist), MaxBlocks)
       IN  /\ heap' = h
           /\ out' = o
           /\ IF threads_per_block > 0 /\ n_blocks > 0
              THEN \E e \in {"GA_NO_ERROR", "GA_IMPL_ERROR"} :
                     kern' = [launched |-> TRUE,
                              gridDim |-> n_blocks, blockDim |-> threads_per_block,
                              gaerr |-> e,
                              pyerr |-> IF e # "GA_NO_ERROR" THEN "RuntimeError" ELSE "",
                              synced |-> cfg.sync,
                              oob |-> FALSE,
                              thr |-> IF e = "GA_NO_ERROR"
                                      THEN [p \in (0 .. n_blocks - 1) \X (0 .. threads_per_block - 1)
                                              |-> [i |-> p[1], j |-> p[2]]]
                                      ELSE NoThreads]
              ELSE kern' = kern
    /\ pc' = "done"
    /\ UNCHANGED <<cfg, yarr, ilist, err, loopn, fixVars, atomVars, gridVars>>

\* One pass of a thread through the body of k_vector_add_fast's loops:
\*   for (i = blockIdx.x; i < numIndices; i += gridDim.x)
\*     for (j = threadIdx.x; j < numColsX; j += blockDim.x) { ... atomicAdd ... }
KernelStep(p) ==
    /\ kern.launched /\ p \in DOMAIN kern.thr
    /\ kern.thr[p].i < Len(ilist)
    /\ LET i == kern.thr[p].i
           j == kern.thr[p].j
           x == heap[out]
           x_row == Row(ilist[i + 1], x.shape[1])
           y_row == i
           xoff == x_row * StrideX0(x) + j * StrideX1(x)
           yoff == y_row * StrideY0(yarr) + j * StrideY1(yarr)
           inside == yoff < Len(yarr.data)
           nj == j + kern.blockDim
       IN  \E val \in (IF inside THEN {yarr.data[yoff + 1]} ELSE Garbage) :
             /\ heap' = [heap EXCEPT ![out].data[xoff + 1] = AtomicAdd(@, val)]
             /\ kern' = [kern EXCEPT
                           !.oob = @ \/ ~inside,
                           !.thr[p] = IF nj < x.shape[2]
                                      THEN [i |-> i, j |-> nj]
                                      ELSE [i |-> i + kern.gridDim, j |-> p[2]]]
    /\ UNCHANGED <<cfg, yarr, ilist, pc, out, err, loopn, fixVars, atomVars, gridVars>>

NextScatter ==
    \/ MakeThunk
    \/ ScatterPerformBegin
    \/ ScatterPerformStep
    \/ FastScatter
    \/ \E p \in DOMAIN kern.thr : KernelStep(p)

SpecScatter == InitScatter /\ [][NextScatter]_vars

\* All three set / accumulate operations.
Init == InitInc \/ InitScatter
Next == NextInc \/ NextScatter
Spec == Init /\ [][Next]_vars

(***************************************************************************)
(* The launch geometry of GpuArray_vector_add_fast and the loops of        *)
(* k_vector_add_fast, at the platform maxima.  A thread's visits do not    *)
(* depend on the other threads: a thread runs its loops in one step and    *)
(* the pairs (i, j) it reaches are listed in the order it reaches them.    *)
(***************************************************************************)
\* i += gridDim.x  /  j += blockDim.x
OuterStrideOne(gridDim) == 1
OuterStride(gridDim) == gridDim
InnerStride(blockDim) == blockDim

\* for(int j = (threadIdx.x); j < numColsX; j += blockDim.x) { ... }
RECURSIVE InnerLoop(_, _, _, _)
InnerLoop(i, j, numColsX, blockDim) ==
    IF j < numColsX
    THEN <<<<i, j>>>> \o InnerLoop(i, j + InnerStride(blockDim), numColsX, blockDim)
    ELSE <<>>
\* for (int i = (blockIdx.x); i < numIndices; i += gridDim.x) { ... }
RECURSIVE OuterLoop(_, _, _, _, _, _)
OuterLoop(i, threadIdx, numIndices, numColsX, gridDim, blockDim) ==
    IF i < numIndices
    THEN InnerLoop(i, threadIdx, numColsX, blockDim)
         \o OuterLoop(i + OuterStride(gridDim), threadIdx, numIndices, numColsX,
                      gridDim, blockDim)
    ELSE <<>>
\* the pairs thread threadIdx of block blockIdx hands to atomicAdd
k_vector_add_fast(blockIdx, threadIdx, numIndices, numColsX, gridDim, blockDim) ==
    OuterLoop(blockIdx, threadIdx, numIndices, numColsX, gridDim, blockDim)

\* Problem sizes: small ones, and ones at and beyond each maximum, the
\* other extent kept small.
ManyIndices == {MaxBlocks - 1, MaxBlocks, MaxBlocks + 1, 2 * MaxBlocks, 2 * MaxBlocks + 1}
ManyCols == {MaxThreadsPerBlock - 1, MaxThreadsPerBlock, MaxThreadsPerBlock + 1,
             2 * MaxThreadsPerBlock, 2 * MaxThreadsPerBlock + 1}
GridSizes ==
    ((0 .. MaxIdx + 1) \X (0 .. XCols + 1))
    \cup (ManyIndices \X (0 .. XCols))
    \cup ((0 .. MaxIdx) \X ManyCols)

InitGrid ==
    /\ FixIdle /\ AtomIdle /\ ArrIdle
    /\ \E sz \in GridSizes :
          grid = [NoGrid EXCEPT !.at = "host", !.numIndices = sz[1], !.numColsX = sz[2]]

\* GpuArray_vector_add_fast: the launch dimensions and the test before
\* GpuKernel_call.
GridLaunch ==
    /\ grid.at = "host"
    /\ LET threads_per_block == Min(grid.numColsX, MaxThreadsPerBlock)
           n_blocks == Min(grid.numIndices, MaxBlocks)
       IN  IF threads_per_block > 0 /\ n_blocks > 0
           THEN grid' = [grid EXCEPT !.at = "device", !.launched = TRUE,
                                     !.gridDim = n_blocks,
                                     !.blockDim = threads_per_block]
           ELSE grid' = [grid EXCEPT !.at = "returned"]
    /\ UNCHANGED <<fixVars, atomVars, arrVars>>

\* The threads whose run is recorded: the first two and the last of a
\* block, in the first two and the last block.
SomeOf(dim) == {0, 1, dim - 1} \cap (0 .. dim - 1)

\* One thread of the launch runs k_vector_add_fast.
GridThread(blockIdx, threadIdx) ==
    /\ grid.at = "device"
    /\ grid' = [grid EXCEPT
                  !.thread = <<blockIdx, threadIdx>>,
                  !.visits = k_vector_add_fast(blockIdx, threadIdx, grid.numIndices,
                                               grid.numColsX, grid.gridDim, grid.blockDim)]
    /\ UNCHANGED <<fixVars, atomVars, arrVars>>

NextGrid ==
    \/ GridLaunch
    \/ \E blockIdx \in SomeOf(grid.gridDim), threadIdx \in SomeOf(grid.blockDim) :
          GridThread(blockIdx, threadIdx)

SpecGrid == InitGrid /\ [][NextGrid]_vars

(***************************************************************************)
(* The reference slice semantics of a sequence of length len: the items    *)
(* with index x = i + n*k, n >= 0, between the resolved ends i and j, where *)
(* an omitted end is the end of the sequence in the direction of k, a      *)
(* negative end counts from the back, and an end outside the sequence is   *)
(* reduced to it.                                                          *)
(***************************************************************************)
Max(a, b) == IF a > b THEN a ELSE b
RefEnd(f, f_n, k, len, omitted) ==
    IF f_n = 1 THEN omitted
    ELSE IF f < 0 THEN Max(f + len, IF k < 0 THEN -1 ELSE 0)
    ELSE Min(f, IF k < 0 THEN len - 1 ELSE len)
RefStep(a) == IF a.step_n = 1 THEN 1 ELSE a.step
RefFirst(a) ==
    RefEnd(a.start, a.start_n, RefStep(a), a.len,
           IF RefStep(a) < 0 THEN a.len - 1 ELSE 0)
RefLast(a) ==
    RefEnd(a.stop, a.stop_n, RefStep(a), a.len,
           IF RefStep(a) < 0 THEN -1 ELSE a.len)
RefItems(a) ==
    {x \in 0 .. a.len - 1 :
        /\ (x - RefFirst(a)) % (IF RefStep(a) < 0 THEN -RefStep(a) ELSE RefStep(a)) = 0
        /\ IF RefStep(a) > 0 THEN x >= RefFirst(a) /\ x < RefLast(a)
                             ELSE x <= RefFirst(a) /\ x > RefLast(a)}

\* A sequence lists exactly the items of a set, in the direction of step.
ListsInOrder(seq, items, step) ==
    /\ Len(seq) = Cardinality(items)
    /\ \A k \in 1 .. Len(seq) : seq[k] \in items
    /\ \A k \in 1 .. Len(seq) - 1 :
          IF step > 0 THEN seq[k] < seq[k + 1] ELSE seq[k] > seq[k + 1]

\* C1: for every axis length 0..MaxLen and every slice with a non-zero step,
\* fields omitted or any integer (negative and out of range included), the
\* triple fix_indices produces selects exactly the indices the reference
\* slice semantics selects, in the same order.
C1_SelectsAsReference ==
    (fpc = "ret" /\ fres.rc = 0) =>
        ListsInOrder(Selected(fres.start, fres.stop, fres.step),
                     RefItems(fargs), fres.step)

\* C1 witness: len 5, slice(None, None, -1) normalizes to (4, -1, -1) and
\* selects 4,3,2,1,0.
C1_Witness ==
    /\ fpc = "ret"
    /\ fargs.len = 5 /\ fargs.start_n = 1 /\ fargs.stop_n = 1
    /\ fargs.step_n = 0 /\ fargs.step = -1
    /\ fres = [rc |-> 0, start |-> 4, stop |-> -1, step |-> -1]
    /\ Selected(fres.start, fres.stop, fres.step) = <<4, 3, 2, 1, 0>>

\* C2: whenever fix_indices returns success the output has step # 0 and,
\* for a positive step, stop >= start.
C2_NormalizedSlice ==
    (fpc = "ret" /\ fres.rc = 0) =>
        /\ fres.step # 0
        /\ (fres.step > 0 => fres.stop >= fres.start)

\* C2 witness: a present stop below a present start with a positive step,
\* raised to the start.
C2_Witness ==
    /\ fpc = "ret" /\ fres.rc = 0
    /\ fargs.start_n = 0 /\ fargs.stop_n = 0 /\ fargs.len = 5
    /\ fargs.start = 3 /\ fargs.stop = 1 /\ fres.step > 0
    /\ fres.stop = 3 /\ fres.start = 3

\* C3: normalization fails exactly when the step is present and 0; an
\* omitted step is taken as 1 and never fails, whatever the step slot held.
C3_FailsIffZeroStep ==
    fpc = "ret" =>
        /\ (fres.rc = -1) <=> (fargs.step_n = 0 /\ fargs.step = 0)
        /\ fres.rc \in {0, -1}
        /\ (fargs.step_n = 1 => fres.rc = 0 /\ fres.step = 1)

\* C3 witness: a present zero step fails although start and stop are fine.
C3_Witness ==
    /\ fpc = "ret" /\ fres.rc = -1
    /\ fargs.step_n = 0 /\ fargs.step = 0
    /\ fargs.len = 5 /\ fargs.start_n = 1 /\ fargs.stop_n = 1

(***************************************************************************)
(* The half-float atomicAdd under contention.                              *)
(***************************************************************************)
AllDone == \A t \in Threads : athr[t].pc = "done"
SameElement == \A t, u \in Threads : athr[t].high = athr[u].high /\ athr[t].val = athr[u].val
\* the half of a word the threads add to
ElementOf(w) ==
    IF athr[1].high THEN w[3] + 256 * w[4] ELSE w[1] + 256 * w[2]
\* n successive half-precision additions of v to h, each rounded to nearest
RECURSIVE AddRounded(_, _, _)
AddRounded(h, v, n) ==
    IF n = 0 THEN h
    ELSE AddRounded(Float2HalfRn(Half2Float(h) + Half2Float(v)), v, n - 1)

\* C6 as stated: when the N threads have each added v to the same element,
\* the element's value is its initial value plus N*v.
C6_ExactSum ==
    (AllDone /\ SameElement) =>
        Half2Float(ElementOf(aword))
            = Half2Float(ElementOf(aword0)) + NThreads * Half2Float(athr[1].val)

\* C6 amended: when the N threads have each added v to the same element, in
\* every interleaving of their read, compute and compare-and-swap steps the
\* element holds the result of N successive rounded half-precision additions
\* of v to its initial value: no addition is lost.
C6_NoLostAddition ==
    (AllDone /\ SameElement) =>
        ElementOf(aword) = AddRounded(ElementOf(aword0), athr[1].val, NThreads)

\* C6 witness: all threads are done on the low half after at least one of
\* them had to retry its compare-and-swap, and a partial sum was rounded.
C6_Witness ==
    /\ AllDone /\ SameElement /\ ~athr[1].high
    /\ ElementOf(aword0) = 2047 /\ athr[1].val = 1
    /\ ElementOf(aword) = 2048
    /\ \E t \in Threads : athr[t].assumed # aword0

(***************************************************************************)
(* The sliced set / accumulate operation against the reference selection.  *)
(***************************************************************************)
RefArgs(entry, len) ==
    [len |-> len,
     start |-> fix_idx(entry.start)[1], start_n |-> fix_idx(entry.start)[2],
     stop |-> fix_idx(entry.stop)[1], stop_n |-> fix_idx(entry.stop)[2],
     step |-> fix_idx(entry.step)[1], step_n |-> fix_idx(entry.step)[2]]
\* the indices an entry selects along an axis, by the reference semantics
RefAxis(entry, len) ==
    IF entry.kind = "int"
    THEN {IF entry.i < 0 THEN entry.i + len ELSE entry.i}
    ELSE RefItems(RefArgs(entry, len))
\* how many selected indices come before x in the direction of the step
RefPos(entry, len, x) ==
    IF entry.kind = "int" THEN 0
    ELSE Cardinality({z \in RefAxis(entry, len) :
                        IF RefStep(RefArgs(entry, len)) > 0 THEN z < x ELSE z > x})
IncRows == RefAxis(cfg.idx_list[1], XDim)
IncCols == IF Len(cfg.idx_list) = 2 THEN RefAxis(cfg.idx_list[2], XDim) ELSE 0 .. XDim - 1
\* the position in y of the source element for x[r][c]
IncSource(r, c) ==
    RefPos(cfg.idx_list[1], XDim, r) * Cardinality(IncCols)
    + (IF Len(cfg.idx_list) = 2 THEN RefPos(cfg.idx_list[2], XDim, c) ELSE c) + 1

\* C10: the result of the sliced operation is the destination with exactly
\* the selected elements replaced, by old value + source in Accumulate mode
\* and by the source value in Set mode, for views of rank > 0 and of rank 0;
\* every unselected element keeps the destination's value.
C10_SlicedCombine ==
    (cfg.op = "GpuIncSubtensor" /\ pc = "done") =>
        \A r \in 0 .. XDim - 1, c \in 0 .. XDim - 1 :
            LET k == r * XDim + c + 1
                old == XData(XDim * XDim)[k]
            IN  heap[out].data[k] =
                    IF r \in IncRows /\ c \in IncCols
                    THEN (IF cfg.set_instead_of_inc THEN 0 ELSE old)
                         + yarr.data[IncSource(r, c)]
                    ELSE old

\* C10 witness: x[::-1, -1] += y on the 2 by 2 array [[1,2],[3,4]] with
\* y = [10, 50] adds 10 to x[1][1] and 50 to x[0][1].
C10_Witness ==
    /\ cfg.op = "GpuIncSubtensor" /\ pc = "done" /\ ~cfg.set_instead_of_inc
    /\ cfg.idx_list = <<SliceEntry(None, None, Given(-1)), IntEntry(-1)>>
    /\ yarr.shape = <<XDim>>
    /\ \A k \in 1 .. XDim * XDim :
          heap[out].data[k] # XData(XDim * XDim)[k] <=> k % XDim = 0
    /\ heap[out].data[XDim * XDim] = XDim * XDim + 10

(***************************************************************************)
(* The scatter operations and the in-place / copy contract.                *)
(***************************************************************************)
IsScatter == cfg.op \in ScatterOps
IsDev20 == cfg.op = "GpuAdvancedIncSubtensor1_dev20"
\* every thread of a launched kernel has left its outer loop
KernelDone ==
    kern.launched => \A p \in DOMAIN kern.thr : kern.thr[p].i >= Len(ilist)
\* the operation returned a result without an error and its work is over
Finished == pc = "done" /\ err = "" /\ kern.pyerr = "" /\ KernelDone
\* what the caller's x held when the operation started
Original == XData(Len(heap[1].data))

\* C4: for the sliced operation, the sequential scatter and the accelerated
\* scatter alike: with inplace false the caller's buffer holds its original
\* contents at every point of the operation and the result is another
\* buffer; with inplace true the result is the caller's buffer itself.
C4_InplaceOrCopy ==
    /\ ~cfg.inplace => heap[1].data = Original
    /\ out # 0 => out = (IF cfg.inplace THEN 1 ELSE 2)

\* C4 witness: an accelerated scatter with inplace false whose kernel has
\* finished: the result, buffer 2, differs from the untouched buffer 1.
C4_Witness ==
    /\ IsDev20 /\ ~cfg.inplace /\ kern.launched /\ Finished
    /\ out = 2 /\ heap[1].data = Original /\ heap[2].data # Original

\* The position in y's data of the source element of index entry j (from 0)
\* for column c: row j of y when y has x's rank and not one row, else y
\* itself, broadcast along the rows it lacks and along a column extent of 1.
SourcePos(j, c) ==
    LET x == heap[1]
        paired == Len(yarr.shape) = Len(x.shape) /\ yarr.shape[1] # 1
        ycols == IF Len(x.shape) = 2 /\ Len(yarr.shape) >= 1
                 THEN yarr.shape[Len(yarr.shape)] ELSE 1
    IN  (IF paired THEN j * ycols ELSE 0) + (IF ycols = 1 THEN 0 ELSE c) + 1
\* every index entry has a source row
Paired == \A j \in 1 .. Len(ilist) : SourcePos(j - 1, 0) <= Len(yarr.data)
\* the sum of the source elements of the first n entries that select row r
RECURSIVE SumEntries(_, _, _)
SumEntries(r, c, n) ==
    IF n = 0 THEN 0
    ELSE SumEntries(r, c, n - 1)
         + (IF Row(ilist[n], heap[1].shape[1]) = r THEN yarr.data[SourcePos(n - 1, c)] ELSE 0)

\* C5: in Accumulate mode, when a scatter whose index entries all have a
\* source row has finished, every element of every destination row r is its
\* initial value plus the sum of the source elements of all index entries
\* that select r, duplicates counted, after the sequential loop and after
\* every interleaving of the kernel's threads (element sums taken exactly).
C5_AccumulateSums ==
    (IsScatter /\ ~cfg.set_instead_of_inc /\ Finished /\ Paired) =>
        \A k \in DOMAIN heap[out].data :
            LET n == RowLen(heap[1].shape)
            IN  heap[out].data[k] =
                    Original[k] + SumEntries((k - 1) \div n, (k - 1) % n, Len(ilist))

\* C5 witness: the kernel has finished x[[0, 0]] += y for a 2-column x and
\* y = [[10, 50], [250, 1250]]: both rows of y are summed into row 0.
C5_Witness ==
    /\ IsDev20 /\ kern.launched /\ Finished /\ ~cfg.set_instead_of_inc
    /\ ilist = <<0, 0>> /\ yarr.shape = <<2, 2>> /\ heap[1].shape[2] = 2
    /\ heap[out].data[1] = Original[1] + 10 + 250
    /\ heap[out].data[2] = Original[2] + 50 + 1250

\* C7 as stated, for a non-empty index vector: when y has x's rank, not one
\* row, and a number of rows that differs from the number of index entries,
\* the operation does not return a result and reads nothing outside y.
C7_MismatchFails ==
    (IsScatter /\ Jointly(heap[1], yarr) /\ Len(ilist) > 0
       /\ yarr.shape[1] # Len(ilist)) =>
        pc # "done" /\ ~kern.oob

C9_SyncedAndSurfaced ==
    (IsDev20 /\ cfg.sync /\ Eligible(cfg, heap[1], yarr) /\ Len(ilist) > 0
       /\ pc \in {"done", "raised"}) =>
        /\ kern.launched /\ kern.synced
        /\ kern.gaerr # "GA_NO_ERROR" => pc = "raised" /\ err = "RuntimeError"

(***************************************************************************)
(* The kernel's coverage of the (index entry, column) pairs.               *)
(***************************************************************************)
\* every visit of the launch: the thread and the position in its run
AllVisits ==
    UNION {{<<b, t, k>> :
              k \in 1 .. Len(k_vector_add_fast(b, t, grid.numIndices, grid.numColsX,
                                               grid.gridDim, grid.blockDim))} :
           <<b, t>> \in (0 .. grid.gridDim - 1) \X (0 .. grid.blockDim - 1)}
PairOf(v) ==
    k_vector_add_fast(v[1], v[2], grid.numIndices, grid.numColsX,
                      grid.gridDim, grid.blockDim)[v[3]]
AllPairs == (0 .. grid.numIndices - 1) \X (0 .. grid.numColsX - 1)

\* C11: a launch happens exactly when there are index entries and columns,
\* with min(numIndices, 4096) blocks of min(numColsX, 256) threads; the
\* visits of all its threads together reach every pair (i, j) with
\* 0 <= i < numIndices and 0 <= j < numColsX, and reach it once, also when
\* numIndices exceeds 4096 or numColsX exceeds 256; a thread's own run stays
\* inside that range.  (The count over all threads is taken in the state
\* right after the launch.)
C11_EveryPairOnce ==
    /\ grid.at = "returned" =>
          ~grid.launched /\ (grid.numIndices = 0 \/ grid.numColsX = 0)
    /\ grid.at = "device" =>
          /\ grid.launched /\ grid.numIndices > 0 /\ grid.numColsX > 0
          /\ grid.gridDim <= MaxBlocks /\ grid.blockDim <= MaxThreadsPerBlock
          /\ \A k \in 1 .. Len(grid.visits) : grid.visits[k] \in AllPairs
    /\ (grid.at = "device" /\ grid.thread = <<>>) =>
          /\ {PairOf(v) : v \in AllVisits} = AllPairs
          /\ Cardinality(AllVisits) = Cardinality(AllPairs)

\* C11 witness: with 8193 index entries block 0 has visited entries 0, 4096
\* and 8192 of column 1.
C11_Witness ==
    /\ grid.at = "device" /\ grid.numIndices = 2 * MaxBlocks + 1 /\ grid.numColsX = 2
    /\ grid.gridDim = MaxBlocks /\ grid.thread = <<0, 1>>
    /\ grid.visits = <<<<0, 1>>, <<MaxBlocks, 1>>, <<2 * MaxBlocks, 1>>>>

(***************************************************************************)
(* Progress of the compare-and-swap loop.                                  *)
(***************************************************************************)
\* thread t is about to run an atomicCAS that will fail
CasWillFail(t) == athr[t].pc = "cas" /\ aword # athr[t].assumed
\* a step in which some thread's atomicCAS succeeds and it returns
SomeCasSucceeds == \E u \in Threads : athr[u].pc = "cas" /\ athr'[u].pc = "done"

\* C12: the word changes only in a step in which a thread's atomicCAS
\* succeeds; a thread's atomicCAS fails only when the word differs from the
\* one it last read, and then another thread's atomicAdd has returned; and
\* under fair scheduling all the invocations eventually return.
C12_LockFree ==
    /\ [][aword' # aword => SomeCasSucceeds]_vars
    /\ [](\A t \in Threads :
            CasWillFail(t) => \E u \in Threads : u # t /\ athr[u].pc = "done")
    /\ <>AllDone

\* C12 witness: a thread is about to fail its atomicCAS because another
\* thread, which has returned, changed the neighbouring half since the
\* read.
C12_Witness ==
    \E t, u \in Threads :
        /\ CasWillFail(t) /\ athr[u].pc = "done" /\ athr[u].high # athr[t].high
        /\ athr[t].assumed = aword0

(***************************************************************************)
(* The two halves of a word under concurrent additions to both.            *)
(***************************************************************************)
HalfAt(w, high) == IF high THEN w[3] + 256 * w[4] ELSE w[1] + 256 * w[2]
\* the threads that add to a half, those of them that have returned, and
\* the value they add
Adders(high) == {t \in Threads : athr[t].high = high}
Returned(high) == {t \in Adders(high) : athr[t].pc = "done"}
ValOf(high) == IF Adders(high) = {} THEN 0 ELSE athr[CHOOSE t \in Adders(high) : TRUE].val

\* C13: at every point of every interleaving of additions to the low and to
\* the high half of one word, each half holds its own initial value with
\* the additions of the threads that have returned from adding to that
\* half (accumulated in half precision), whatever was added to the other
\* half; a half nobody adds to keeps its initial value.
C13_HalvesIndependent ==
    \A high \in BOOLEAN :
        HalfAt(aword, high) =
            AddRounded(HalfAt(aword0, high), ValOf(high), Cardinality(Returned(high)))

\* C13 witness: both halves have been added to, one thread having retried
\* after an addition to the other half, and the low half went from 5 to 6.
C13_Witness ==
    /\ AllDone /\ Cardinality(Adders(FALSE)) = 1 /\ Adders(TRUE) # {}
    /\ HalfAt(aword0, FALSE) = 5 /\ HalfAt(aword, FALSE) = 6
    /\ HalfAt(aword, TRUE) # HalfAt(aword0, TRUE)
    /\ \E t \in Adders(FALSE) : athr[t].assumed # aword0

(***************************************************************************)
(* The kernel against GpuAdvancedIncSubtensor1.perform.                    *)
(***************************************************************************)
\* the loops of perform over the first n entries of idx, in their order
RECURSIVE SeqLoop(_, _, _, _, _)
SeqLoop(x, y, idx, n, set_instead_of_inc) ==
    IF n = 0 THEN x
    ELSE LET before == SeqLoop(x, y, idx, n - 1, set_instead_of_inc)
         IN  [before EXCEPT !.data = SeqCombine(before, y, idx[n], n - 1,
                                                 set_instead_of_inc)]
\* what perform gives for the node c and the inputs x, y, idx: the exception
\* it raises ("" for none) and the data of its result
perform(c, x, y, idx) ==
    IF Len(idx) = 0 THEN [err |-> "", data |-> x.data]
    ELSE IF Jointly(x, y) /\ y.shape[1] # Len(idx)
    THEN [err |-> "AssertionError", data |-> x.data]
    ELSE IF ~c.set_instead_of_inc /\ AdditionKernel(c.dtype) # "ok"
    THEN [err |-> AdditionKernel(c.dtype), data |-> x.data]
    ELSE [err |-> "", data |-> SeqLoop(x, y, idx, Len(idx), c.set_instead_of_inc).data]
\* perform on the inputs of this run
Sequential == perform(cfg, [shape |-> heap[1].shape, data |-> Original], yarr, ilist)
\* the accelerated path has returned a result and its kernel has finished,
\* for a source of one row or of one row per index entry
KernelResult ==
    /\ IsDev20 /\ Eligible(cfg, heap[1], yarr)
    /\ pc = "done" /\ kern.pyerr = "" /\ KernelDone
    /\ yarr.shape[1] = 1 \/ yarr.shape[1] = Len(ilist)

\* C14 as stated: whenever the kernel has produced its result, perform
\* produces a result for the same node and inputs, and the same one.
C14_SameForEveryType ==
    KernelResult => Sequential.err = "" /\ heap[out].data = Sequential.data

\* C14 amended: for elements that are not 2-byte floats, the result of the
\* kernel, after every interleaving of its threads, is the result of
\* perform for the same node and inputs (element sums taken exactly); and
\* a run of perform by the framework ends as the operator perform says.
C14_KernelAsSequential ==
    /\ (KernelResult /\ cfg.dtype # "float16") =>
          Sequential.err = "" /\ heap[out].data = Sequential.data
    /\ (IsScatter /\ ~kern.launched /\ pc \in {"done", "raised"} /\ err # "KeyError"
          /\ ~(IsDev20 /\ Eligible(cfg, heap[1], yarr))) =>
          err = Sequential.err /\ (err = "" => heap[out].data = Sequential.data)

\* C14 witness: the kernel has finished x[[-1, -1]] += y for a y of one row
\* and one column: the last row of x received y's element twice, in every
\* column, as perform gives it.
C14_Witness ==
    /\ KernelResult /\ cfg.dtype # "float16" /\ kern.launched
    /\ ilist = <<-1, -1>> /\ yarr.shape = <<1, 1>>
    /\ heap[out].data = Sequential.data
    /\ heap[out].data[Len(Original)] = Original[Len(Original)] + 2 * yarr.data[1]
====
